---- MODULE Spec2Model ----
(***************************************************************************)
(* The media acquisition and transcode job pipeline of server.js: the job  *)
(* registry `jobs`, the yt-dlp download promise chain of POST              *)
(* /api/download (progress handler, .then handler with the ffmpeg          *)
(* thumbnail embed, .catch handler), GET /api/status and GET /api/file     *)
(* with its res.download completion callback, over a working directory.    *)
(*                                                                         *)
(* Strings that the code takes apart or puts together are sequences of     *)
(* tokens: a path is <<"temp/", "a", ".", "mp4">>, so that lastIndexOf('.')*)
(* , endsWith, path.basename and path.join are computed as in the code.    *)
(* A percentage string is <<50, "%">>, its leading number being what       *)
(* parseInt reads; <<>> is the empty or missing string.                    *)
(***************************************************************************)
EXTENDS Integers, Sequences, FiniteSets, TLC

\* ------------------------------------------------------------------ bounds
\* File requests accepted in one run.
MaxTransfers == 2

\* ------------------------------------------------------- program constants
TEMP_DIR == "temp/"
extension == "mp4"
\* `file: null` of a fresh record; a file name is a sequence of tokens.
null == <<>>

\* ------------------------------------------------------------ input sets
\* The inputs of one run. ids: the identifiers the generator issues, in this
\* order; asked: the identifiers clients ask about (0 is never issued); urls:
\* the URLs submitted (the downloader names its output after the asset, so two
\* submissions of one URL write the same names); pcts: p.percentage_str of a
\* progress report (<<>> stands for a report without one); results: what the
\* downloader resolves with; thumbs: the thumbnail it writes; leftovers: what a
\* failed download leaves; exits, throws: how the embed step ends; titles: the
\* display titles of file requests; vIds, aIds: the stream ids of a submission
\* ("" stands for an empty or absent one); imgUrls: the imgUrl query values
\* of thumbnail requests, as sequences of tokens (<<>>: none given).
\* One job, with everything the tools and the file system can do to it.
OneJob ==
    [ids |-> {1}, asked |-> {0, 1}, urls |-> {"a"}, pcts |-> {<<>>, <<10, "%">>, <<50, "%">>},
     results |-> {"none", "mp4", "webm", "webm+mp4", "webm+mp4+mp4"},
     thumbs |-> {"none", "jpg", "webp"}, leftovers |-> {"none", "thumb", "part"},
     exits |-> {"ok", "partial", "fail"}, throws |-> 0..3,
     titles |-> {<<"D", "1">>, <<"a", "-">>},
     vIds |-> {"", "137"}, aIds |-> {"", "140"},
     imgUrls |-> {<<>>, <<"pic">>, <<"file", ":", "///etc/passwd">>,
                  <<"http", ":", "//h/i.jpg">>, <<"HTTPS", ":", "//h/i.webp">>}]
\* Two jobs at once, on the same URL or on two.
TwoJobs ==
    [ids |-> {1, 2}, asked |-> {1, 2}, urls |-> {"a", "b"}, pcts |-> {<<50, "%">>},
     results |-> {"none", "webm+mp4"},
     thumbs |-> {"none", "jpg"}, leftovers |-> {"none", "thumb"},
     exits |-> {"ok"}, throws |-> {0, 2},
     titles |-> {<<"a", "-">>},
     vIds |-> {"137"}, aIds |-> {"140"},
     imgUrls |-> {<<"file", ":", "///etc/passwd">>, <<"http", ":", "//h/i.jpg">>}]
VLabels == {"FHD"}
ALabels == {""}
Titles == {<<"D", "1">>}
\* The characters of the titles that are in [A-Za-z0-9].
AlNum == {"D", "1", "a"}

VARIABLES
    jobs,       \* the registry: job id -> record, for the ids present
    nextId,     \* the identifier generator: ids below it have been issued
    task,       \* per submitted job: the position of its download promise chain
    disk,       \* the working directory: path -> content, for the files present
    transfers,  \* res.download calls whose completion callback has not run yet
    out,        \* what the last step answered or logged
    hist        \* per submitted job: what has happened to it so far

vars == <<jobs, nextId, task, disk, transfers, out, hist>>

\* -------------------------------------------------- objects and the disk
Has(f, k) == k \in DOMAIN f
Put(f, k, v) == [x \in (DOMAIN f) \cup {k} |-> IF x = k THEN v ELSE f[x]]
Remove(f, k) == [x \in (DOMAIN f) \ {k} |-> f[x]]

\* The transfers in flight are a bag: transfer -> how many of it are running.
BagAdd(b, t) == Put(b, t, IF Has(b, t) THEN b[t] + 1 ELSE 1)
BagRemove(b, t) == IF b[t] > 1 THEN Put(b, t, b[t] - 1) ELSE Remove(b, t)

existsSync(d, p) == p \in DOMAIN d
unlinkSync(d, p) == Remove(d, p)
renameSync(d, from, to) == Put(Remove(d, from), to, d[from])

\* ------------------------------------------------------------ path strings
\* finalFile.lastIndexOf('.'), as a 1-based token index; 0 when there is none.
lastIndexOfDot(p) ==
    IF \E i \in DOMAIN p : p[i] = "."
    THEN CHOOSE i \in DOMAIN p : p[i] = "." /\ \A k \in DOMAIN p : p[k] = "." => k <= i
    ELSE 0

\* finalFile.substring(0, finalFile.lastIndexOf('.')): a negative end counts as 0.
baseNameOf(p) ==
    IF lastIndexOfDot(p) = 0 THEN <<>> ELSE SubSeq(p, 1, lastIndexOfDot(p) - 1)

\* p.endsWith(`.${extension}`)
endsWithExt(p) ==
    Len(p) >= 2 /\ p[Len(p) - 1] = "." /\ p[Len(p)] = extension

\* path.basename: what follows the last directory token.
basename(p) ==
    LET dirs == {i \in DOMAIN p : p[i] = TEMP_DIR}
        last == IF dirs = {} THEN 0 ELSE CHOOSE i \in dirs : \A k \in dirs : k <= i
    IN  SubSeq(p, last + 1, Len(p))

\* path.join(TEMP_DIR, name)
joinTemp(name) == <<TEMP_DIR>> \o name

\* A choice that takes the last path ending with .mp4 instead of the first.
finalFileOfLastMatch(filePaths) ==
    IF \E i \in DOMAIN filePaths : endsWithExt(filePaths[i])
    THEN filePaths[CHOOSE i \in DOMAIN filePaths :
            /\ endsWithExt(filePaths[i])
            /\ \A k \in DOMAIN filePaths : endsWithExt(filePaths[k]) => k <= i]
    ELSE filePaths[1]

\* result.filePaths.find(p => p.endsWith('.mp4')) || result.filePaths[0]
finalFileOf(filePaths) ==
    IF \E i \in DOMAIN filePaths : endsWithExt(filePaths[i])
    THEN filePaths[CHOOSE i \in DOMAIN filePaths :
            /\ endsWithExt(filePaths[i])
            /\ \A k \in DOMAIN filePaths : endsWithExt(filePaths[k]) => i <= k]
    ELSE filePaths[1]

\* [baseName + '.jpg', baseName + '.webp', baseName + '.png']
possibleThumbs(baseName) ==
    <<baseName \o <<".", "jpg">>, baseName \o <<".", "webp">>, baseName \o <<".", "png">>>>

\* possibleThumbs.find(f => fs.existsSync(f)), as an index; 0 for undefined.
thumbIndex(d, baseName) ==
    LET c == possibleThumbs(baseName)
    IN  IF \E i \in DOMAIN c : existsSync(d, c[i])
        THEN CHOOSE i \in DOMAIN c :
                existsSync(d, c[i]) /\ \A k \in DOMAIN c : existsSync(d, c[k]) => i <= k
        ELSE 0

\* baseName + '_with_thumb.' + extension
embeddedFileOf(baseName) == baseName \o <<"_with_thumb", ".", extension>>

\* `${vLabel || 'NoVideo'}_${aLabel || 'NoAudio'}`
namingTag(vLabel, aLabel) ==
    <<IF vLabel = "" THEN "NoVideo" ELSE vLabel, "_",
      IF aLabel = "" THEN "NoAudio" ELSE aLabel>>

\* A selection that asks for the video stream alone whenever there is one.
formatSelectionVideoFirst(vId, aId) ==
    IF vId # "" THEN <<vId>>
    ELSE IF aId # "" THEN <<aId>>
    ELSE <<>>

\* (vId && aId) ? `${vId}+${aId}` : (vId || aId); <<>> is the empty string.
formatSelection(vId, aId) ==
    IF vId # "" /\ aId # "" THEN <<vId, "+", aId>>
    ELSE IF vId # "" THEN <<vId>>
    ELSE IF aId # "" THEN <<aId>>
    ELSE <<>>

\* A sanitizer that drops the characters it does not allow.
safeTitleDropping(title) ==
    SelectSeq(title, LAMBDA c : c \in AlNum)

\* title.replace(/[^a-z0-9]/gi, '_')
safeTitleOf(title) ==
    [i \in DOMAIN title |-> IF title[i] \in AlNum THEN title[i] ELSE "_"]

\* `${safeTitle}_${job.customTag}.mp4`
finalNameOf(title, customTag) ==
    safeTitleOf(title) \o <<"_">> \o customTag \o <<".", "mp4">>

\* ------------------------------------------------- the external downloader
\* The paths the downloader may name for a URL, and the files it writes.
PathOf(url, ext) == <<TEMP_DIR, url, ".", ext>>

ResultFor(url, shape) ==
    CASE shape = "mp4" -> <<PathOf(url, "mp4")>>
      [] shape = "webm" -> <<PathOf(url, "webm")>>
      [] shape = "webm+mp4" -> <<PathOf(url, "webm"), PathOf(url, "mp4")>>
      [] shape = "webm+mp4+mp4" ->
            <<PathOf(url, "webm"), PathOf(url, "mp4"),
              <<TEMP_DIR, url, ".", "f137", ".", "mp4">>>>
      [] OTHER -> <<>>

ThumbExts == {"jpg", "webp"}

Video(j) == [kind |-> "video", job |-> j]
Thumb(j) == [kind |-> "thumb", job |-> j]
Partial(j) == [kind |-> "partial", job |-> j]
NoOut == [op |-> "none"]
NoContent == [kind |-> "absent", job |-> 0]

\* ------------------------------------------------------------- the state
Init ==
    /\ jobs = <<>>
    /\ nextId = 1
    /\ task = <<>>
    /\ disk = <<>>
    /\ transfers = <<>>
    /\ out = NoOut
    /\ hist = <<>>

\* The event loop is free: no handler is inside spawnSync, which blocks the
\* one thread of the server until ffmpeg exits.
Idle == \A j \in DOMAIN task : task[j].pc # "embedding"

\* A generator that hands out the identifier it issued last once more.
uuidv4Reused == IF nextId > 1 THEN nextId - 1 ELSE nextId

\* A generator that numbers a job by the records in the registry, so that an
\* identifier comes back once a record was removed.
uuidv4FromRegistrySize == Cardinality(DOMAIN jobs) + 1

\* uuidv4(): an identifier that was never issued before.
uuidv4 == nextId

\* A handler that awaits the download before it answers: when the identifier
\* is answered, Stage 1 has already resolved.
SubmitAwaitsDownload(url, vId, aId, vLabel, aLabel, title) ==
    /\ Idle
    /\ LET jobId == uuidv4
       IN  /\ jobs' = Put(jobs, jobId,
                        [status |-> "downloading", progress |-> <<0, "%">>, file |-> null,
                         customTag |-> namingTag(vLabel, aLabel), title |-> title])
           /\ task' = Put(task, jobId, [pc |-> "resolved", url |-> url, vId |-> vId, aId |-> aId,
                         format |-> formatSelection(vId, aId), filePaths |-> <<>>])
           /\ hist' = Put(hist, jobId,
                        [stage1 |-> "resolved", embed |-> "none", started |-> 0,
                         sends |-> 0, cleaned |-> FALSE])
           /\ out' = [op |-> "submit", job |-> jobId]
    /\ nextId' = nextId + 1
    /\ UNCHANGED <<disk, transfers>>

\* app.post('/api/download'): the record is created, the download started and
\* the identifier answered; the stages run later.
Submit(url, vId, aId, vLabel, aLabel, title) ==
    /\ Idle
    /\ LET jobId == uuidv4
       IN  /\ jobs' = Put(jobs, jobId,
                        [status |-> "downloading", progress |-> <<0, "%">>, file |-> null,
                         customTag |-> namingTag(vLabel, aLabel), title |-> title])
           /\ task' = Put(task, jobId, [pc |-> "running", url |-> url, vId |-> vId, aId |-> aId,
                         format |-> formatSelection(vId, aId), filePaths |-> <<>>])
           /\ hist' = Put(hist, jobId,
                        [stage1 |-> "pending", embed |-> "none", started |-> 0,
                         sends |-> 0, cleaned |-> FALSE])
           /\ out' = [op |-> "submit", job |-> jobId]
    /\ nextId' = nextId + 1
    /\ UNCHANGED <<disk, transfers>>

\* parseInt(p.percentage_str) % 25 === 0: parseInt reads the leading number;
\* for a missing string it is NaN, and NaN % 25 === 0 is false.
logsProgress(percentage_str) ==
    IF percentage_str = <<>> THEN FALSE ELSE percentage_str[1] % 25 = 0

\* A progress handler that also marks the job as downloading.
ProgressMarksDownloading(j, percentage_str) ==
    /\ Idle
    /\ Has(task, j)
    /\ jobs' = IF Has(jobs, j)
               THEN [jobs EXCEPT ![j].progress =
                        IF percentage_str = <<>> THEN <<0, "%">> ELSE percentage_str,
                                 ![j].status = "downloading"]
               ELSE jobs
    /\ out' = [op |-> "progress", job |-> j, pct |-> percentage_str,
               logged |-> Has(jobs, j) /\ logsProgress(percentage_str)]
    /\ UNCHANGED <<nextId, task, disk, transfers, hist>>

\* A progress handler that throttles the update together with the log line.
ProgressStoredWhenLogged(j, percentage_str) ==
    /\ Idle
    /\ Has(task, j)
    /\ jobs' = IF Has(jobs, j) /\ logsProgress(percentage_str)
               THEN [jobs EXCEPT ![j].progress = percentage_str]
               ELSE jobs
    /\ out' = [op |-> "progress", job |-> j, pct |-> percentage_str,
               logged |-> Has(jobs, j) /\ logsProgress(percentage_str)]
    /\ UNCHANGED <<nextId, task, disk, transfers, hist>>

\* A progress handler without the `if (jobs[jobId])` guard, writing the
\* progress of a job whether or not its record is there.
ProgressWithoutGuard(j, percentage_str) ==
    /\ Idle
    /\ Has(task, j)
    /\ jobs' = IF Has(jobs, j)
               THEN [jobs EXCEPT ![j].progress =
                        IF percentage_str = <<>> THEN <<0, "%">> ELSE percentage_str]
               ELSE Put(jobs, j, [status |-> "downloading", progress |-> percentage_str,
                                  file |-> null, customTag |-> <<>>, title |-> <<>>])
    /\ out' = [op |-> "progress", job |-> j, pct |-> percentage_str,
               logged |-> logsProgress(percentage_str)]
    /\ UNCHANGED <<nextId, task, disk, transfers, hist>>

\* .on('progress', p => ...): a report of the downloader of a submitted job;
\* nothing in the handler ties it to a position of the promise chain, so a
\* late report is handled like any other.
Progress(j, percentage_str) ==
    /\ Idle
    /\ Has(task, j)
    /\ jobs' = IF Has(jobs, j)
               THEN [jobs EXCEPT ![j].progress =
                        IF percentage_str = <<>> THEN <<0, "%">> ELSE percentage_str]
               ELSE jobs
    /\ out' = [op |-> "progress", job |-> j, pct |-> percentage_str,
               logged |-> Has(jobs, j) /\ logsProgress(percentage_str)]
    /\ UNCHANGED <<nextId, task, disk, transfers, hist>>

\* ytdlp.download(...).run(ffmpegArgs) resolves: the downloader has written
\* its files (the last path it names, unless that file is gone again, and a
\* converted thumbnail or none) and hands over result.filePaths.
Stage1Resolve(j, shape, wrote, thumbExt) ==
    /\ Idle
    /\ Has(task, j) /\ task[j].pc = "running"
    /\ LET filePaths == ResultFor(task[j].url, shape)
           d1 == IF wrote /\ filePaths # <<>>
                 THEN Put(disk, filePaths[Len(filePaths)], Video(j))
                 ELSE disk
           d2 == IF thumbExt \in ThumbExts
                 THEN Put(d1, PathOf(task[j].url, thumbExt), Thumb(j))
                 ELSE d1
       IN  /\ disk' = d2
           /\ task' = [task EXCEPT ![j].pc = "resolved", ![j].filePaths = filePaths]
    /\ hist' = [hist EXCEPT ![j].stage1 = "resolved"]
    /\ out' = NoOut
    /\ UNCHANGED <<jobs, nextId, transfers>>

\* ytdlp.download(...).run(ffmpegArgs) rejects: the downloader failed, after
\* writing nothing, its thumbnail, or a partial download.
Stage1Reject(j, leftover) ==
    /\ Idle
    /\ Has(task, j) /\ task[j].pc = "running"
    /\ disk' = CASE leftover = "thumb" -> Put(disk, PathOf(task[j].url, "jpg"), Thumb(j))
                 [] leftover = "part" ->
                        Put(disk, PathOf(task[j].url, "mp4") \o <<".", "part">>, Partial(j))
                 [] OTHER -> disk
    /\ task' = [task EXCEPT ![j].pc = "rejected"]
    /\ hist' = [hist EXCEPT ![j].stage1 = "rejected"]
    /\ out' = NoOut
    /\ UNCHANGED <<jobs, nextId, transfers>>

\* spawnSync('ffmpeg', ['-y', '-i', finalFile, '-i', thumbFile, ..., embeddedFile]):
\* it returns whatever ffmpeg's exit was. "ok": the complete output is written;
\* "partial": ffmpeg failed and left a partial output; "fail": it failed and
\* wrote nothing (a file already at that path stays).
spawnSyncFfmpeg(d, finalFile, embeddedFile, exit) ==
    CASE exit = "ok" -> Put(d, embeddedFile, [kind |-> "embedded", job |-> d[finalFile].job])
      [] exit = "partial" -> Put(d, embeddedFile, [kind |-> "partial", job |-> d[finalFile].job])
      [] OTHER -> d

\* A replacement that forgets the thumbnail file.
replaceOriginalKeepsThumb(d, finalFile, thumbFile, embeddedFile, throwAt) ==
    IF ~existsSync(d, embeddedFile) THEN d
    ELSE IF throwAt = 1 THEN d
    ELSE IF throwAt \in {2, 3} THEN unlinkSync(d, finalFile)
    ELSE renameSync(unlinkSync(d, finalFile), embeddedFile, finalFile)

\* if (fs.existsSync(embeddedFile)) { unlinkSync(finalFile); unlinkSync(thumbFile);
\* renameSync(embeddedFile, finalFile) }, inside try/catch: the file operation
\* number throwAt throws (0: none does) and the catch absorbs it.
replaceOriginal(d, finalFile, thumbFile, embeddedFile, throwAt) ==
    IF ~existsSync(d, embeddedFile) THEN d
    ELSE IF throwAt = 1 THEN d
    ELSE IF throwAt = 2 THEN unlinkSync(d, finalFile)
    ELSE IF throwAt = 3 THEN unlinkSync(unlinkSync(d, finalFile), thumbFile)
    ELSE renameSync(unlinkSync(unlinkSync(d, finalFile), thumbFile), embeddedFile, finalFile)

\* A guard that looks for the thumbnail only.
embedInvokedWhenThumb(d, finalFile) ==
    thumbIndex(d, baseNameOf(finalFile)) # 0

\* if (thumbFile && fs.existsSync(finalFile))
embedInvoked(d, finalFile) ==
    thumbIndex(d, baseNameOf(finalFile)) # 0 /\ existsSync(d, finalFile)

\* TASK 2 of the .then handler: the disk after it.
task2(d, finalFile, exit, throwAt) ==
    LET baseName == baseNameOf(finalFile)
        thumbFile == possibleThumbs(baseName)[thumbIndex(d, baseName)]
        embeddedFile == embeddedFileOf(baseName)
    IN  IF embedInvoked(d, finalFile)
        THEN replaceOriginal(spawnSyncFfmpeg(d, finalFile, embeddedFile, exit),
                             finalFile, thumbFile, embeddedFile, throwAt)
        ELSE d

\* An update that marks the job completed and forgets to store the file name.
markCompletedWithoutFile(js, j, finalFile) ==
    IF Has(js, j) THEN [js EXCEPT ![j].status = "completed"] ELSE js

\* if (jobs[jobId]) { status = 'completed'; file = path.basename(finalFile) }
markCompleted(js, j, finalFile) ==
    IF Has(js, j)
    THEN [js EXCEPT ![j].status = "completed", ![j].file = basename(finalFile)]
    ELSE js

\* A chain that runs Stage 2 without waiting for the outcome of Stage 1, on
\* the path the download is expected to produce.
ThenHandlerWithoutWaiting(j) ==
    /\ Idle
    /\ Has(task, j) /\ task[j].pc \in {"running", "resolved"}
    /\ LET filePaths == IF task[j].pc = "running"
                        THEN ResultFor(task[j].url, "mp4")
                        ELSE task[j].filePaths
           finalFile == finalFileOf(filePaths)
       IN  IF Len(filePaths) > 0 /\ embedInvoked(disk, finalFile)
           THEN /\ task' = [task EXCEPT ![j].pc = "embedding", ![j].filePaths = filePaths]
                /\ hist' = [hist EXCEPT ![j].embed = "running"]
                /\ UNCHANGED jobs
           ELSE /\ task' = [task EXCEPT ![j].pc = "done", ![j].filePaths = <<>>]
                /\ IF Len(filePaths) > 0
                   THEN /\ jobs' = markCompleted(jobs, j, finalFile)
                        /\ hist' = [hist EXCEPT ![j].embed = "skipped"]
                   ELSE UNCHANGED <<jobs, hist>>
    /\ out' = NoOut
    /\ UNCHANGED <<nextId, disk, transfers>>

\* .then((result) => ...): the callback runs to its end, or, when the embed
\* is invoked, up to the spawnSync call, inside which the server's thread
\* waits for ffmpeg.
ThenHandler(j) ==
    /\ Idle
    /\ Has(task, j) /\ task[j].pc = "resolved"
    /\ LET filePaths == task[j].filePaths
           finalFile == finalFileOf(filePaths)
       IN  IF Len(filePaths) > 0 /\ embedInvoked(disk, finalFile)
           THEN /\ task' = [task EXCEPT ![j].pc = "embedding"]
                /\ hist' = [hist EXCEPT ![j].embed = "running"]
                /\ UNCHANGED jobs
           ELSE /\ task' = [task EXCEPT ![j].pc = "done", ![j].filePaths = <<>>]
                /\ IF Len(filePaths) > 0
                   THEN /\ jobs' = markCompleted(jobs, j, finalFile)
                        /\ hist' = [hist EXCEPT ![j].embed = "skipped"]
                   ELSE UNCHANGED <<jobs, hist>>
    /\ out' = NoOut
    /\ UNCHANGED <<nextId, disk, transfers>>

\* spawnSync returns and the .then callback runs to its end: the replacement
\* of the original and the update of the record.
spawnSyncReturns(j, exit, throwAt) ==
    /\ Has(task, j) /\ task[j].pc = "embedding"
    /\ LET finalFile == finalFileOf(task[j].filePaths)
       IN  /\ disk' = task2(disk, finalFile, exit, throwAt)
           /\ jobs' = markCompleted(jobs, j, finalFile)
    /\ hist' = [hist EXCEPT ![j].embed =
                  IF exit = "ok" /\ throwAt = 0 THEN "ok" ELSE "failed"]
    /\ task' = [task EXCEPT ![j].pc = "done", ![j].filePaths = <<>>]
    /\ out' = NoOut
    /\ UNCHANGED <<nextId, transfers>>

\* A .catch handler that also runs after the .then handler has finished, as
\* it would if that handler threw at its end.
CatchHandlerAfterThen(j) ==
    /\ Idle
    /\ Has(task, j) /\ task[j].pc \in {"rejected", "done"}
    /\ jobs' = IF Has(jobs, j) THEN [jobs EXCEPT ![j].status = "error"] ELSE jobs
    /\ task' = [task EXCEPT ![j].pc = "done"]
    /\ out' = NoOut
    /\ UNCHANGED <<nextId, disk, transfers, hist>>

\* A .catch handler that drops the record of the failed job.
CatchHandlerRemovesRecord(j) ==
    /\ Idle
    /\ Has(task, j) /\ task[j].pc = "rejected"
    /\ jobs' = IF Has(jobs, j) THEN Remove(jobs, j) ELSE jobs
    /\ task' = [task EXCEPT ![j].pc = "done"]
    /\ out' = NoOut
    /\ UNCHANGED <<nextId, disk, transfers, hist>>

\* A .catch handler that only logs and leaves the record as it is.
CatchHandlerOnlyLogs(j) ==
    /\ Idle
    /\ Has(task, j) /\ task[j].pc = "rejected"
    /\ task' = [task EXCEPT ![j].pc = "done"]
    /\ out' = NoOut
    /\ UNCHANGED <<jobs, nextId, disk, transfers, hist>>

\* .catch((err) => { if (jobs[jobId]) jobs[jobId].status = 'error'; ... })
CatchHandler(j) ==
    /\ Idle
    /\ Has(task, j) /\ task[j].pc = "rejected"
    /\ jobs' = IF Has(jobs, j) THEN [jobs EXCEPT ![j].status = "error"] ELSE jobs
    /\ task' = [task EXCEPT ![j].pc = "done"]
    /\ out' = NoOut
    /\ UNCHANGED <<nextId, disk, transfers, hist>>

\* A lookup that enters an empty record for an identifier it does not know.
StatusPollCreatesRecord(j) ==
    /\ Idle
    /\ out' = [op |-> "status", job |-> j,
               found |-> Has(jobs, j),
               body |-> IF Has(jobs, j) THEN <<jobs[j]>> ELSE <<>>]
    /\ jobs' = IF Has(jobs, j) THEN jobs
               ELSE Put(jobs, j, [status |-> "unknown", progress |-> <<>>, file |-> null,
                                  customTag |-> <<>>, title |-> <<>>])
    /\ UNCHANGED <<nextId, task, disk, transfers, hist>>

\* new URL(imgUrl): it throws (ok FALSE) unless the string starts with a
\* scheme and a colon; the protocol of the result is the scheme in lower
\* case with the colon.
toLowerCase(t) ==
    CASE t = "HTTP" -> "http"
      [] t = "HTTPS" -> "https"
      [] OTHER -> t

parseURL(s) ==
    IF Len(s) >= 2 /\ s[2] = ":"
    THEN [ok |-> TRUE, protocol |-> <<toLowerCase(s[1]), ":">>]
    ELSE [ok |-> FALSE, protocol |-> <<>>]

\* A check that accepts whatever parses as a URL.
validImgUrlAnyProtocol(imgUrl) == parseURL(imgUrl).ok

\* try { parsedUrl = new URL(imgUrl);
\*       if (!['http:', 'https:'].includes(parsedUrl.protocol)) throw } catch { 400 }
validImgUrl(imgUrl) ==
    /\ parseURL(imgUrl).ok
    /\ parseURL(imgUrl).protocol \in {<<"http", ":">>, <<"https", ":">>}

\* app.get('/api/thumbnail'): 400 without an imgUrl or with one that is not
\* an http(s) URL; otherwise ffmpeg is spawned on the URL and its output
\* piped into the response. The request belongs to no job (job 0).
ThumbnailRequest(imgUrl) ==
    /\ Idle
    /\ out' = IF imgUrl = <<>>
              THEN [op |-> "thumbnail", job |-> 0, imgUrl |-> imgUrl, code |-> 400,
                    body |-> "No image URL provided", spawned |-> FALSE]
              ELSE IF ~validImgUrl(imgUrl)
              THEN [op |-> "thumbnail", job |-> 0, imgUrl |-> imgUrl, code |-> 400,
                    body |-> "Invalid URL format", spawned |-> FALSE]
              ELSE [op |-> "thumbnail", job |-> 0, imgUrl |-> imgUrl, code |-> 200,
                    body |-> "image/png", spawned |-> TRUE]
    /\ UNCHANGED <<jobs, nextId, task, disk, transfers, hist>>

\* app.get('/api/status/:jobId'): res.json(jobs[jobId] || {})
StatusPoll(j) ==
    /\ Idle
    /\ out' = [op |-> "status", job |-> j,
               found |-> Has(jobs, j),
               body |-> IF Has(jobs, j) THEN <<jobs[j]>> ELSE <<>>]
    /\ UNCHANGED <<jobs, nextId, task, disk, transfers, hist>>

\* The file requests accepted so far for the jobs in S.
RECURSIVE startedIn(_)
startedIn(S) ==
    IF S = {} THEN 0
    ELSE LET j == CHOOSE x \in S : TRUE
         IN  hist[j].started + startedIn(S \ {j})

\* A guard that only looks whether the job exists.
fileReadyAnyStatus(js, j) == Has(js, j)

\* if (!job || job.status !== 'completed')
fileReady(js, j) == Has(js, j) /\ js[j].status = "completed"

\* A file route that keeps the title of the request in the record.
FileRequestStoresTitle(j, title) ==
    /\ Idle
    /\ IF ~fileReady(jobs, j)
       THEN /\ out' = [op |-> "file", job |-> j, code |-> 400]
            /\ UNCHANGED <<jobs, nextId, task, disk, transfers, hist>>
       ELSE /\ startedIn(DOMAIN hist) < MaxTransfers
            /\ LET filePath == joinTemp(jobs[j].file)
                   finalName == finalNameOf(title, jobs[j].customTag)
                   sent == IF existsSync(disk, filePath) THEN disk[filePath] ELSE NoContent
               IN  /\ transfers' = BagAdd(transfers,
                           [job |-> j, filePath |-> filePath, sent |-> sent])
                   /\ out' = [op |-> "file", job |-> j,
                              code |-> IF existsSync(disk, filePath) THEN 200 ELSE 0,
                              title |-> title, filename |-> finalName]
                   /\ hist' = [hist EXCEPT ![j].started = @ + 1,
                                           ![j].sends = IF existsSync(disk, filePath)
                                                        THEN @ + 1 ELSE @]
            /\ jobs' = [jobs EXCEPT ![j].title = title]
            /\ UNCHANGED <<nextId, task, disk>>

\* app.get('/api/file/:jobId/:title'): 400, or res.download(filePath, finalName, cb)
\* is started; cb runs later. With the file there, the transmission starts
\* (200); with the file missing nothing is sent (code 0) and only cb runs.
FileRequest(j, title) ==
    /\ Idle
    /\ IF ~fileReady(jobs, j)
       THEN /\ out' = [op |-> "file", job |-> j, code |-> 400]
            /\ UNCHANGED <<jobs, nextId, task, disk, transfers, hist>>
       ELSE /\ startedIn(DOMAIN hist) < MaxTransfers
            /\ LET filePath == joinTemp(jobs[j].file)
                   finalName == finalNameOf(title, jobs[j].customTag)
                   sent == IF existsSync(disk, filePath) THEN disk[filePath] ELSE NoContent
               IN  /\ transfers' = BagAdd(transfers,
                           [job |-> j, filePath |-> filePath, sent |-> sent])
                   /\ out' = [op |-> "file", job |-> j,
                              code |-> IF existsSync(disk, filePath) THEN 200 ELSE 0,
                              title |-> title, filename |-> finalName]
                   /\ hist' = [hist EXCEPT ![j].started = @ + 1,
                                           ![j].sends = IF existsSync(disk, filePath)
                                                        THEN @ + 1 ELSE @]
            /\ UNCHANGED <<jobs, nextId, task, disk>>

\* try { if (existsSync(filePath)) unlinkSync(filePath); delete jobs[jobId] }
\* catch (e) { log }: when unlinkSync throws, the delete is not reached.
cleanupDisk(d, filePath, unlinkThrows) ==
    IF existsSync(d, filePath) /\ ~unlinkThrows THEN unlinkSync(d, filePath) ELSE d

\* A purge that runs whether or not the unlink threw, as in a finally block.
cleanupJobsInFinally(js, d, j, filePath, unlinkThrows) ==
    IF Has(js, j) THEN Remove(js, j) ELSE js

\* A purge that drops every completed record along with the delivered one.
cleanupJobsPurgesCompleted(js, d, j, filePath, unlinkThrows) ==
    IF existsSync(d, filePath) /\ unlinkThrows THEN js
    ELSE [x \in {k \in DOMAIN js : k # j /\ js[k].status # "completed"} |-> js[x]]

cleanupJobs(js, d, j, filePath, unlinkThrows) ==
    IF existsSync(d, filePath) /\ unlinkThrows THEN js
    ELSE IF Has(js, j) THEN Remove(js, j) ELSE js

\* The completion callback of res.download, after the transfer t ended
\* (err: the transmission was interrupted, which is only logged).
TransferDone(t, err, unlinkThrows) ==
    /\ Idle
    /\ Has(transfers, t)
    /\ disk' = cleanupDisk(disk, t.filePath, unlinkThrows)
    /\ jobs' = cleanupJobs(jobs, disk, t.job, t.filePath, unlinkThrows)
    /\ hist' = [hist EXCEPT ![t.job].cleaned = TRUE]
    /\ out' = [op |-> "cleanup", job |-> t.job, filePath |-> t.filePath]
    /\ transfers' = BagRemove(transfers, t)
    /\ UNCHANGED <<nextId, task>>

\* One step of the server, with its inputs drawn from In.
NextOf(In) ==
    \/ \E url \in In.urls, vId \in In.vIds, aId \in In.aIds,
          vLabel \in VLabels, aLabel \in ALabels, title \in Titles :
            uuidv4 \in In.ids /\ Submit(url, vId, aId, vLabel, aLabel, title)
    \/ \E j \in In.ids, p \in In.pcts : Progress(j, p)
    \/ \E j \in In.ids, shape \in In.results, wrote \in BOOLEAN, thumbExt \in In.thumbs :
            Stage1Resolve(j, shape, wrote, thumbExt)
    \/ \E j \in In.ids, leftover \in In.leftovers : Stage1Reject(j, leftover)
    \/ \E j \in In.ids : ThenHandler(j)
    \/ \E j \in In.ids, exit \in In.exits, throwAt \in In.throws :
            spawnSyncReturns(j, exit, throwAt)
    \/ \E j \in In.ids : CatchHandler(j)
    \/ \E j \in In.asked : StatusPoll(j)
    \/ \E j \in In.asked, title \in In.titles : FileRequest(j, title)
    \/ \E t \in DOMAIN transfers, err \in BOOLEAN, unlinkThrows \in BOOLEAN :
            TransferDone(t, err, unlinkThrows)
    \/ \E imgUrl \in In.imgUrls : ThumbnailRequest(imgUrl)

Next == NextOf(TwoJobs)
NextOne == NextOf(OneJob)

Spec == Init /\ [][Next]_vars
SpecOne == Init /\ [][NextOne]_vars

\* ------------------------------------------------------------------ C1
\* C1: a job's status never changes from completed or error back to
\* downloading, whatever is submitted, reported, polled or requested: not in
\* one step of its record, and not by its identifier being given a fresh
\* record once the old one was removed.
C1_StatusNeverReverts ==
    [][\A j \in DOMAIN hist :
          /\ (Has(jobs, j) /\ jobs[j].status \in {"completed", "error"} /\ Has(jobs', j))
                => jobs'[j].status # "downloading"
          /\ ~Has(jobs, j) => ~Has(jobs', j)]_vars

\* A finished job (completed or error) was polled or asked for afterwards.
C1_Witness ==
    \E j \in DOMAIN jobs :
        /\ jobs[j].status \in {"completed", "error"}
        /\ out.op \in {"status", "file"} /\ out.job = j

\* ------------------------------------------------------------------ C2
\* C2: for every job, the transmission of its artifact is started at most
\* once, also when a second file request arrives before the first one's
\* completion callback has run.
C2_TransmissionStartedAtMostOnce ==
    \A j \in DOMAIN hist : hist[j].sends <= 1

\* ------------------------------------------------------------------ C3
\* C3: once the completion callback of a transfer has run, the artifact is
\* absent from the working directory and the record is absent from the registry.
C3_CleanupRemovesFileAndRecord ==
    out.op = "cleanup" => (~existsSync(disk, out.filePath) /\ ~Has(jobs, out.job))

\* ------------------------------------------------------------------ C4
\* C4: after the cleanup of a delivery of job j has run, every later status
\* poll for j finds nothing and every later file request for j is answered 400.
C4_AfterCleanupNotFound ==
    \A j \in DOMAIN hist :
        hist[j].cleaned =>
            /\ (out.op = "status" /\ out.job = j) => ~out.found
            /\ (out.op = "file" /\ out.job = j) => out.code = 400

\* ------------------------------------------------------------------ C5
\* C5: in every state, a job that is completed and in the registry has its
\* artifact in the working directory under the name in its file field.
C5_CompletedHasArtifact ==
    \A j \in DOMAIN jobs :
        jobs[j].status = "completed" => existsSync(disk, joinTemp(jobs[j].file))

\* ------------------------------------------------------------------ C6
\* C6: when the embed operation failed, the job is still completed and what
\* a file request then sends is exactly the file Stage 1 wrote for the job.
C6_EmbedFailureDeliversStage1 ==
    \A j \in DOMAIN hist :
        hist[j].embed = "failed" =>
            /\ Has(jobs, j) => jobs[j].status = "completed"
            /\ \A t \in DOMAIN transfers : t.job = j => t.sent = Video(j)

\* ------------------------------------------------------------------ C7
\* C7: a job whose Stage 1 resolved is, once its handlers have run, completed
\* with a non-empty file; no job whose handlers have run is still downloading.
C7_ResolvedJobCompletes ==
    \A j \in DOMAIN jobs :
        task[j].pc = "done" =>
            /\ jobs[j].status # "downloading"
            /\ hist[j].stage1 = "resolved" =>
                    (jobs[j].status = "completed" /\ jobs[j].file # null)

\* ------------------------------------------------------------------ C8
\* C8: when Stage 1 failed for a job, its record stays in the registry with
\* file unset, the embed step is never run for it, and once the failure has
\* been handled its status is error.
C8_Stage1FailureIsError ==
    \A j \in DOMAIN hist :
        hist[j].stage1 = "rejected" =>
            /\ Has(jobs, j)
            /\ jobs[j].file = null
            /\ hist[j].embed = "none"
            /\ jobs[j].status = IF task[j].pc = "done" THEN "error" ELSE "downloading"

\* Stage 1 failed for a job and the failure was handled.
C8_Witness ==
    \E j \in DOMAIN hist :
        /\ hist[j].stage1 = "rejected" /\ task[j].pc = "done"
        /\ Has(jobs, j) /\ jobs[j].status = "error"

\* ------------------------------------------------------------------ C9
\* C9: when Stage 1 failed for a job and the job is in status error, no file
\* written for that job is in the working directory.
C9_NoFilesAfterStage1Failure ==
    \A j \in DOMAIN jobs :
        (hist[j].stage1 = "rejected" /\ jobs[j].status = "error") =>
            \A p \in DOMAIN disk : disk[p].job # j

\* ----------------------------------------------------------------- C10
\* C10: a file request for a job that is not in the registry, or is not
\* completed, is answered 400 and leaves the registry, the working directory
\* and the transfers in flight as they were.
C10_RejectedFileRequestChangesNothing ==
    [][(/\ out'.op = "file"
        /\ (~Has(jobs, out'.job) \/ jobs[out'.job].status \in {"downloading", "error"}))
          => (out'.code = 400 /\ jobs' = jobs /\ disk' = disk /\ transfers' = transfers)]_vars

\* A file request for a job in status error was answered 400.
C10_Witness ==
    /\ out.op = "file" /\ out.code = 400
    /\ Has(jobs, out.job) /\ jobs[out.job].status = "error"

\* ----------------------------------------------------------------- C11
\* C11: a submission whose video and audio stream ids are both empty or
\* absent is rejected: no job was ever given a record and a download with an
\* empty format selection.
C11_NoStreamSubmissionRejected ==
    \A j \in DOMAIN task : task[j].format # <<>>

\* ----------------------------------------------------------------- C12
\* C12: the files of two jobs are disjoint: a step of one job's Stage 2 (its
\* .then handler finishing) or of its delivery cleanup never deletes or
\* replaces the file that the record of another, completed job references.
C12_OtherJobsFileUntouched ==
    [][\A j \in DOMAIN task, k \in DOMAIN jobs :
         (/\ j # k
          /\ jobs[k].status = "completed"
          /\ existsSync(disk, joinTemp(jobs[k].file))
          /\ \/ task[j].pc # "done" /\ task'[j].pc = "done" /\ hist[j].stage1 = "resolved"
             \/ out'.op = "cleanup" /\ out'.job = j)
           => /\ existsSync(disk', joinTemp(jobs[k].file))
              /\ disk'[joinTemp(jobs[k].file)] = disk[joinTemp(jobs[k].file)]]_vars

\* ----------------------------------------------------------------- C13
\* C13: while the Thumbnail-Embed invocation of one job is in progress, the
\* server can handle a request for another job: a status poll for any other
\* identifier can be answered in that state.
C13_ServesOthersDuringEmbed ==
    \A a \in DOMAIN task :
        task[a].pc = "embedding" =>
            \A b \in TwoJobs.asked \ {a} : ENABLED StatusPoll(b)

\* ----------------------------------------------------------------- C14
\* C14: a submission creates the record with status downloading, progress
\* 0% and no file, starts the downloader and answers the job id without
\* waiting for it: when the identifier has just been answered, the record is
\* there in that form and the download is still running.
C14_SubmitAnswersWithoutWaiting ==
    out.op = "submit" =>
        /\ Has(jobs, out.job)
        /\ jobs[out.job].status = "downloading"
        /\ jobs[out.job].progress = <<0, "%">>
        /\ jobs[out.job].file = <<>>
        /\ task[out.job].pc = "running"
        /\ hist[out.job].stage1 = "pending"

\* The identifier of a second job was answered while the first is past its
\* Stage 1.
C14_Witness ==
    /\ out.op = "submit" /\ out.job = 2
    /\ jobs[2].status = "downloading" /\ task[2].pc = "running"
    /\ task[1].pc \in {"resolved", "done"}

\* ----------------------------------------------------------------- C15
\* C15: in every reachable state and for every record in the registry, the
\* record's file is non-empty exactly when its status is completed.
C15_FileIffCompleted ==
    \A j \in DOMAIN jobs : (jobs[j].file # <<>>) <=> (jobs[j].status = "completed")

\* One job is completed and names its file while another is in error
\* without one.
C15_Witness ==
    \E j \in DOMAIN jobs, k \in DOMAIN jobs :
        /\ jobs[j].status = "completed" /\ jobs[j].file # <<>>
        /\ jobs[k].status = "error" /\ jobs[k].file = <<>>

\* ----------------------------------------------------------------- C16
\* C16: within one job, the Thumbnail-Embed invocation never starts before
\* Stage 1 has reported success: a job whose embed is running or has run is a
\* job whose download resolved.
C16_EmbedOnlyAfterStage1Success ==
    \A j \in DOMAIN task :
        (task[j].pc = "embedding" \/ hist[j].embed \in {"running", "ok", "failed"})
            => hist[j].stage1 = "resolved"

\* The embed of a job whose download resolved is in progress.
C16_Witness ==
    \E j \in DOMAIN task :
        /\ task[j].pc = "embedding" /\ hist[j].embed = "running"
        /\ hist[j].stage1 = "resolved"

\* ----------------------------------------------------------------- C17
\* C17: a status poll leaves the registry and the working directory as they
\* were, whatever identifier it asks about, and a poll for an identifier that
\* was never submitted is answered with the empty, not-found result.
C17_StatusPollOnlyReads ==
    [][out'.op = "status" =>
         /\ jobs' = jobs
         /\ disk' = disk
         /\ ~Has(hist, out'.job) => (~out'.found /\ out'.body = <<>>)]_vars

\* A poll for the identifier that is never issued was answered not-found
\* while a job has a record and files.
C17_Witness ==
    /\ out.op = "status" /\ out.job = 0 /\ ~out.found
    /\ jobs # <<>> /\ disk # <<>>

C19_StrayEventIgnored ==
    [][\A j \in DOMAIN task :
         (/\ ~Has(jobs, j)
          /\ \/ out'.op = "progress" /\ out'.job = j
             \/ task'[j].pc # task[j].pc)
           => jobs' = jobs]_vars

\* A progress report was handled for a job that had been delivered and
\* cleaned up, and the registry is empty.
C19_Witness ==
    /\ out.op = "progress" /\ out.pct = <<50, "%">>
    /\ Has(hist, out.job) /\ hist[out.job].cleaned
    /\ ~Has(jobs, out.job) /\ jobs = <<>>

\* ----------------------------------------------------------------- C20
\* C20: every progress report handled while the job's record exists is
\* stored, whether or not a log line was emitted for it: right after the
\* report the record's progress is the reported percentage string, and 0%
\* for a report that carries no percentage string.
C20_ProgressStored ==
    (out.op = "progress" /\ Has(jobs, out.job)) =>
        jobs[out.job].progress = IF out.pct = <<>> THEN <<0, "%">> ELSE out.pct

\* A report of 10%, for which no log line is emitted, was stored.
C20_Witness ==
    /\ out.op = "progress" /\ ~out.logged
    /\ out.pct = <<10, "%">>
    /\ Has(jobs, out.job) /\ jobs[out.job].progress = <<10, "%">>

\* C20 as stated: right after any progress report handled while the record
\* exists, the record's progress equals the reported percentage string.
C20_ProgressEqualsReport ==
    (out.op = "progress" /\ Has(jobs, out.job)) => jobs[out.job].progress = out.pct

\* ----------------------------------------------------------------- C21
\* C21: while a job's status is downloading, its stored progress never
\* decreases from one state to the next, whatever progress reports arrive.
C21_ProgressNeverDecreases ==
    [][\A j \in DOMAIN jobs :
         (/\ Has(jobs', j)
          /\ jobs[j].status = "downloading"
          /\ jobs'[j].status = "downloading")
           => jobs'[j].progress[1] >= jobs[j].progress[1]]_vars

\* ----------------------------------------------------------------- C22
\* C22: every submission inserts its record under an identifier that is not
\* in the registry and was never used before, and leaves the record of every
\* job already in the registry as it was.
C22_FreshIdentifier ==
    [][nextId' # nextId =>
         /\ out'.op = "submit"
         /\ ~Has(jobs, out'.job) /\ ~Has(hist, out'.job)
         /\ Has(jobs', out'.job)
         /\ \A k \in DOMAIN jobs : Has(jobs', k) /\ jobs'[k] = jobs[k]]_vars

\* A second job was submitted after the first one had been delivered and
\* removed, and it did not get the first one's identifier.
C22_Witness ==
    /\ out.op = "submit" /\ out.job = 2
    /\ hist[1].cleaned /\ ~Has(jobs, 1) /\ Has(jobs, 2)

\* ----------------------------------------------------------------- C23
\* C23: once a job has been delivered and cleaned up (its record removed),
\* no file written for that job is in the working directory: not the
\* artifact, not the thumbnail, not the temporary embed output.
C23_NoFilesAfterCleanup ==
    \A j \in DOMAIN hist :
        (hist[j].cleaned /\ ~Has(jobs, j)) =>
            \A p \in DOMAIN disk : disk[p].job # j

\* ----------------------------------------------------------------- C24
\* C24: when the embed failed, then once the job is marked completed no
\* _with_thumb temporary file of the job exists and the original Stage 1
\* artifact is on disk under its original name.
C24_FailedEmbedOutputDiscarded ==
    \A j \in DOMAIN jobs :
        (hist[j].embed = "failed" /\ jobs[j].status = "completed") =>
            LET finalFile == joinTemp(jobs[j].file)
            IN  /\ ~existsSync(disk, embeddedFileOf(baseNameOf(finalFile)))
                /\ existsSync(disk, finalFile)
                /\ disk[finalFile] = Video(j)

C26_ArtifactOrEmbedOutputOnDisk ==
    \A j \in DOMAIN jobs :
        (hist[j].embed \in {"running", "ok", "failed"} /\ hist[j].started = 0) =>
            LET finalFile == IF task[j].pc = "embedding"
                             THEN finalFileOf(task[j].filePaths)
                             ELSE joinTemp(jobs[j].file)
                baseName == baseNameOf(finalFile)
                embeddedFile == embeddedFileOf(baseName)
            IN  /\ embeddedFile # finalFile
                /\ \A i \in DOMAIN possibleThumbs(baseName) :
                       possibleThumbs(baseName)[i] # embeddedFile
                /\ \E p \in {finalFile, embeddedFile} :
                       existsSync(disk, p) /\ disk[p].kind \in {"video", "embedded"}

\* ----------------------------------------------------------------- C27
\* C27: when the .then handler runs for a download that resolved with a
\* canonical artifact, and no thumbnail file exists at any probed extension
\* or the artifact file is missing, then the embed is not invoked, the
\* working directory stays as it was, and the job is marked completed with
\* file equal to the base name of the canonical artifact.
C27_SkipPath ==
    [][\A j \in DOMAIN jobs :
         LET filePaths == task[j].filePaths
             finalFile == finalFileOf(filePaths)
             probed == possibleThumbs(baseNameOf(finalFile))
         IN  (/\ task[j].pc = "resolved" /\ task'[j].pc # "resolved"
              /\ Len(filePaths) > 0
              /\ \/ \A i \in DOMAIN probed : ~existsSync(disk, probed[i])
                 \/ ~existsSync(disk, finalFile))
               => /\ task'[j].pc = "done"
                  /\ hist'[j].embed = "skipped"
                  /\ disk' = disk
                  /\ jobs'[j].status = "completed"
                  /\ jobs'[j].file = basename(finalFile)]_vars

\* A job completed on the skip path with its artifact on disk and no
\* thumbnail at any probed extension.
C27_Witness ==
    \E j \in DOMAIN jobs :
        /\ hist[j].embed = "skipped" /\ jobs[j].status = "completed"
        /\ existsSync(disk, joinTemp(jobs[j].file))
        /\ thumbIndex(disk, baseNameOf(joinTemp(jobs[j].file))) = 0
        /\ hist[j].started = 0

\* ----------------------------------------------------------------- C28
\* C28: a record leaves the registry only in the completion callback of a
\* file request of that job, which was accepted while the job was completed;
\* the record of a job in status error or downloading is in the registry in
\* the next state, whatever step is taken.
C28_RemovedOnlyByCleanup ==
    [][\A j \in DOMAIN jobs :
         ~Has(jobs', j) =>
            /\ out'.op = "cleanup" /\ out'.job = j
            /\ jobs[j].status = "completed"
            /\ \E t \in DOMAIN transfers :
                  t.job = j /\ (~Has(transfers', t) \/ transfers'[t] < transfers[t])]_vars

\* The cleanup of one job removed its record while the record of a job in
\* error stays in the registry.
C28_Witness ==
    /\ out.op = "cleanup" /\ ~Has(jobs, out.job)
    /\ \E k \in DOMAIN jobs : jobs[k].status = "error"

\* ----------------------------------------------------------------- C29
\* C29: a step that belongs to one job (its submission, a progress report,
\* a stage outcome or handler of its download, a status poll, a file request
\* or a cleanup for it) leaves the registry record of every other job as it
\* was, under every interleaving of two jobs.
C29_OtherRecordsUnchanged ==
    [][\A b \in DOMAIN jobs :
         (\/ out'.op # "none" /\ out'.job # b
          \/ out'.op = "none" /\ task'[b].pc = task[b].pc)
           => Has(jobs', b) /\ jobs'[b] = jobs[b]]_vars

\* The cleanup of job 1 removed its record while job 2, completed as well,
\* keeps its own.
C29_Witness ==
    /\ out.op = "cleanup" /\ out.job = 1 /\ ~Has(jobs, 1)
    /\ Has(jobs, 2) /\ jobs[2].status = "completed"

\* ----------------------------------------------------------------- C30
\* C30: the customTag and the title of a record are those written at
\* submission for as long as the record exists: no step changes either
\* field of a record that is in the registry before and after it.
C30_TagAndTitleFixed ==
    [][\A j \in DOMAIN jobs :
         Has(jobs', j) =>
            /\ jobs'[j].customTag = jobs[j].customTag
            /\ jobs'[j].title = jobs[j].title]_vars

\* A file request with another display title than the one submitted was
\* accepted, and the record has the title and the tag of its submission.
C30_Witness ==
    /\ out.op = "file" /\ out.code = 200
    /\ out.title = <<"a", "-">>
    /\ jobs[out.job].title = <<"D", "1">>
    /\ jobs[out.job].customTag = <<"FHD", "_", "NoAudio">>

\* ----------------------------------------------------------------- C31
\* C31: the format selection handed to the downloader is <video>+<audio>
\* when both stream ids are non-empty, the video id alone when only it is
\* non-empty, and the audio id alone when only it is non-empty.
C31_FormatSelection ==
    \A j \in DOMAIN task :
        LET v == task[j].vId
            a == task[j].aId
            f == task[j].format
        IN  /\ (v # "" /\ a # "") => f = <<v, "+", a>>
            /\ (v # "" /\ a = "") => f = <<v>>
            /\ (v = "" /\ a # "") => f = <<a>>

\* A download was started for a submission with both stream ids.
C31_Witness ==
    \E j \in DOMAIN task :
        /\ task[j].vId = "137" /\ task[j].aId = "140"
        /\ task[j].format = <<"137", "+", "140">>
        /\ task[j].pc = "running"

\* ----------------------------------------------------------------- C32
\* C32: for a non-empty list of Stage 1 output paths, the canonical artifact,
\* the one the record names when the job is marked completed, is the first
\* path of the list that ends with .mp4, and the first path of the list when
\* none ends with .mp4.
C32_CanonicalArtifact ==
    [][\A j \in DOMAIN jobs :
         LET fp == task[j].filePaths
             mp4s == {i \in DOMAIN fp : fp[i][Len(fp[i])] = "mp4" /\ fp[i][Len(fp[i]) - 1] = "."}
             chosen == IF mp4s = {} THEN 1
                       ELSE CHOOSE i \in mp4s : \A k \in mp4s : i <= k
         IN  (/\ Len(fp) > 0
              /\ Has(jobs', j)
              /\ jobs[j].status # "completed" /\ jobs'[j].status = "completed")
               => <<TEMP_DIR>> \o jobs'[j].file = fp[chosen]]_vars

\* A job whose download named a .webm and two .mp4 paths is completed with
\* the first of the .mp4 paths.
C32_Witness ==
    \E j \in DOMAIN jobs :
        /\ jobs[j].status = "completed"
        /\ jobs[j].file = <<task[j].url, ".", "mp4">>
        /\ existsSync(disk, <<TEMP_DIR, task[j].url, ".", "f137", ".", "mp4">>)

\* ----------------------------------------------------------------- C33
\* C33: when deleting the artifact throws in the delivery cleanup (the file
\* is there before the callback and still there after it), the callback
\* ends normally and changes nothing: the record stays in the registry as it
\* was, completed, so that a file request for the job is accepted again.
C33_FailedUnlinkKeepsRecord ==
    [][(/\ out'.op = "cleanup"
        /\ existsSync(disk, out'.filePath)
        /\ existsSync(disk', out'.filePath))
          => /\ disk' = disk
             /\ jobs' = jobs
             /\ Has(jobs', out'.job)
             /\ jobs'[out'.job].status = "completed"
             /\ fileReady(jobs', out'.job)]_vars

\* After a cleanup of the job that could not delete the file, a second file
\* request for it was accepted and the file is sent again.
C33_Witness ==
    /\ out.op = "file" /\ out.code = 200
    /\ hist[out.job].cleaned /\ hist[out.job].sends = 2
    /\ Has(jobs, out.job) /\ jobs[out.job].status = "completed"
    /\ \A t \in DOMAIN transfers : transfers[t] = 1
    /\ Cardinality(DOMAIN transfers) = 1

\* ----------------------------------------------------------------- C34
\* C34: a job that is completed never becomes error, a job that is in error
\* never becomes completed, and a file name once set stays the same for as
\* long as the record is in the registry.
C34_OutcomeIsFinal ==
    [][\A j \in DOMAIN jobs :
         Has(jobs', j) =>
            /\ jobs[j].status = "completed" => jobs'[j].status = "completed"
            /\ jobs[j].status = "error" => jobs'[j].status = "error"
            /\ jobs[j].file # <<>> => jobs'[j].file = jobs[j].file]_vars

\* A cleanup that could not delete the file has run for a completed job,
\* and its record is still completed and names its file.
C34_Witness ==
    /\ out.op = "cleanup" /\ Has(jobs, out.job)
    /\ jobs[out.job].status = "completed"
    /\ joinTemp(jobs[out.job].file) = out.filePath

\* ----------------------------------------------------------------- C35
\* C35: a run of the delivery cleanup callback for a job whose record an
\* earlier run of the callback has already removed leaves the registry and
\* the working directory exactly as they were.
C35_SecondCleanupChangesNothing ==
    [][(/\ out'.op = "cleanup"
        /\ hist[out'.job].cleaned
        /\ ~Has(jobs, out'.job))
          => (jobs' = jobs /\ disk' = disk)]_vars

\* ----------------------------------------------------------------- C36
\* C36: a progress report changes nothing but the progress field of its own
\* job's record: status, file, customTag and title of that record stay, and
\* so does every other record, also when the job is already completed or in
\* error.
C36_ProgressChangesOnlyProgress ==
    [][out'.op = "progress" =>
         /\ DOMAIN jobs' = DOMAIN jobs
         /\ \A j \in DOMAIN jobs :
              /\ jobs'[j].status = jobs[j].status
              /\ jobs'[j].file = jobs[j].file
              /\ jobs'[j].customTag = jobs[j].customTag
              /\ jobs'[j].title = jobs[j].title
              /\ j # out'.job => jobs'[j].progress = jobs[j].progress]_vars

\* A report of 50% was stored for a job that is in error.
C36_Witness ==
    /\ out.op = "progress" /\ Has(jobs, out.job)
    /\ jobs[out.job].status = "error"
    /\ jobs[out.job].progress = <<50, "%">>
    /\ task[out.job].pc = "done"

\* ----------------------------------------------------------------- C37
\* C37: the thumbnail endpoint starts the external image conversion exactly
\* when an image URL is supplied that parses as a URL with protocol http or
\* https; for a missing, unparsable or other-protocol URL it answers 400 and
\* starts no process.
C37_ThumbnailValidation ==
    out.op = "thumbnail" =>
        LET u == out.imgUrl
            accepted == /\ u # <<>>
                        /\ Len(u) >= 2 /\ u[2] = ":"
                        /\ u[1] \in {"http", "https", "HTTP", "HTTPS"}
        IN  /\ out.spawned <=> accepted
            /\ ~accepted => out.code = 400
            /\ accepted => out.code # 400

\* A request with a file: URL was answered 400 and no process was started.
C37_Witness ==
    /\ out.op = "thumbnail"
    /\ out.imgUrl = <<"file", ":", "///etc/passwd">>
    /\ out.code = 400 /\ ~out.spawned

====
